---------------------------- MODULE Spec2Model ----------------------------
(* A model of src/analyzer/analyzer.py: the retry decorator, the credential *)
(* rotation, the decorated process_code (sleep_and_retry / limits / retry), *)
(* parse_issues, collect_issues and the analyze traversal.                  *)
(*                                                                          *)
(* Four specifications share the definitions:                               *)
(*   SpecRetry  the retry wrapper around an arbitrary fallible operation;   *)
(*   SpecToken  successive get_next_token calls on one analyzer;            *)
(*   SpecSplit  split_content applied to a content and a max_length;        *)
(*   Spec       the analyzer: construction, analyze, collect_issues,        *)
(*              process_code, parse_issues, add_file_summary.               *)
EXTENDS Integers, Sequences, FiniteSets, TLC

VARIABLES
    pc,          \* position of the (single) thread of control
    exc,         \* the exception that left the outermost frame, or "none"
    rcfg,        \* retry(...) arguments: [tries, delay, backoff]
    l_tries,     \* wrapper_retry local _tries
    l_delay,     \* wrapper_retry local _delay
    calls,       \* outcomes of func, one per invocation, in this wrapper call
    sleeps,      \* durations passed to time.sleep in this wrapper call
    rout,        \* outcome of the wrapper call itself
    tokens,      \* config.tokens
    cursor,      \* position of self.token_cycle in tokens (next to yield)
    tokLog,      \* values returned by get_next_token so far
    walked,      \* files os.walk has yielded so far: [supported, readable]
    cur,         \* the file being processed: [name, token, content]
    contents,    \* chunks of the current file
    ci,          \* index of the chunk collect_issues is at
    summaries,   \* collect_issues local summaries
    reports,     \* calls received by html_report.add_file_summary
    dispatched,  \* paths for which the client was invoked
    requests,    \* client requests made for the current file, in order
    client,      \* outcome of the latest client request
    parsed,      \* outcome of the latest parse_issues call
    found,       \* issues parse_issues returned for each chunk of cur
    arg_max_length,  \* the max_length argument of a split_content call
    layers,      \* wrappers the latest client invocation passed through
    now,         \* the clock, in ticks
    last_reset,  \* limits.last_reset
    num_calls,   \* limits.num_calls
    stamps,      \* clock readings of the requests sent in the current window
    waits        \* durations sleep_and_retry slept in this process_code call

retryVars == <<rcfg, l_tries, l_delay, calls, sleeps, rout>>
tokenVars == <<tokens, cursor, tokLog>>
walkVars  == <<walked, cur, contents, ci, summaries, reports, dispatched,
               requests, client, parsed, found, arg_max_length>>
limitVars == <<layers, now, last_reset, num_calls, stamps, waits>>
vars == <<pc, exc, retryVars, tokenVars, walkVars, limitVars>>

----------------------------------------------------------------------------
(* Bounds of the model.                                                     *)

MaxTries    == 3     \* largest tries argument SpecRetry draws
MaxDelay    == 2     \* largest delay argument SpecRetry draws
MaxBackoff  == 2     \* largest backoff argument SpecRetry draws
MaxTokens   == 3     \* longest token list SpecToken draws
MaxCalls    == 7     \* get_next_token calls SpecToken makes
MaxFiles    == 2     \* files os.walk yields in Spec
MaxContent  == 5     \* longest file content, in characters
MaxLength   == 2     \* stands for 5000: split_content's max_length default
                     \* (line 134) and analyze's threshold (line 189)
MaxTime     == 1     \* the clock stops advancing between calls at MaxTime
TicksPerSecond == 2  \* resolution of the clock
MaxSplitLen == 4     \* longest content SpecSplit draws
MaxSplitM   == 3     \* largest max_length SpecSplit draws

----------------------------------------------------------------------------
(* Outcomes of a call: a returned value or a raised exception class.        *)

Return(v) == [kind |-> "return", val |-> v]
Raise(e)  == [kind |-> "raise", val |-> e]
NoOutcome == [kind |-> "none", val |-> ""]

\* The tuple process_code hands to retry (line 81); the same three classes
\* are caught inside the body (line 127).
NetworkErrors == {"HTTPError", "ConnectionError", "Timeout"}

\* Exceptions of other classes that an operation may raise.
OtherErrors == {"APIError"}

----------------------------------------------------------------------------
(* retry(exceptions, tries, delay, backoff): wrapper_retry.                 *)

DEFAULT_DELAY   == 1
DEFAULT_BACKOFF == 2

\* `except exceptions as e` (line 43): does the handler catch outcome o?
CatchesAll(o, exceptions) == o.kind = "raise"
Catches(o, exceptions) == o.kind = "raise" /\ o.val \in exceptions

\* `while _tries > 1` (line 40).
InLoopOffByOne(t) == t > 0
InLoop(t) == t > 1

\* `_delay *= backoff` (line 47).
NextDelayAdditive(d, backoff) == d + backoff
NextDelay(d, backoff) == d * backoff

\* Line 39: the wrapper's locals are set from the decorator's arguments.
RetryEnter ==
    /\ l_tries' = rcfg.tries
    /\ l_delay' = rcfg.delay
    /\ calls' = << >>
    /\ sleeps' = << >>
    /\ rout' = NoOutcome
    /\ UNCHANGED rcfg

\* One invocation of func by the wrapper, with outcome o.  Inside the loop
\* (lines 40-47) a caught exception sleeps, decrements _tries and scales
\* _delay; a return value or an exception the handler does not catch leaves
\* the wrapper.  After the loop (line 48) whatever func does leaves the
\* wrapper.
RetryStep(o, exceptions) ==
    /\ calls' = Append(calls, o)
    /\ IF InLoop(l_tries) /\ Catches(o, exceptions)
         THEN /\ sleeps' = Append(sleeps, l_delay)
              /\ l_tries' = l_tries - 1
              /\ l_delay' = NextDelay(l_delay, rcfg.backoff)
              /\ rout' = NoOutcome
              /\ now' = now + l_delay * TicksPerSecond
         ELSE /\ rout' = o
              /\ UNCHANGED <<sleeps, l_tries, l_delay, now>>
    /\ UNCHANGED rcfg

----------------------------------------------------------------------------
(* SpecRetry: the wrapper around an operation whose every invocation may    *)
(* return, raise a designated exception or raise another exception.         *)

OpOutcomes == {Return("ok")} \cup {Raise(e) : e \in NetworkErrors \cup OtherErrors}

RetryConfigs ==
    [tries : 1..MaxTries, delay : 1..MaxDelay, backoff : 1..MaxBackoff]

Idle ==
    /\ exc = "none"
    /\ l_tries = 0 /\ l_delay = 0
    /\ calls = << >> /\ sleeps = << >> /\ rout = NoOutcome
    /\ cursor = 1 /\ tokLog = << >>
    /\ walked = << >> /\ cur = [name |-> << >>, token |-> "", content |-> << >>]
    /\ contents = << >> /\ ci = 1 /\ summaries = << >>
    /\ reports = << >> /\ dispatched = {}
    /\ requests = << >> /\ client = NoOutcome /\ found = << >>
    /\ parsed = [kind |-> "none", exc |-> "",
                 val |-> [t |-> "null", items |-> << >>]]
    /\ arg_max_length = 1
    /\ layers = << >> /\ now = 0 /\ last_reset = 0 /\ num_calls = 0
    /\ stamps = << >> /\ waits = << >>

InitRetry ==
    /\ Idle
    /\ pc = "retry_idle"
    /\ tokens = << >>
    /\ rcfg \in RetryConfigs

\* The caller invokes the wrapped operation.
RetryCall ==
    /\ pc = "retry_idle"
    /\ RetryEnter
    /\ pc' = "retry_loop"
    /\ UNCHANGED <<exc, tokenVars, walkVars, limitVars>>

\* The wrapper invokes the operation once.
RetryAttempt ==
    /\ pc = "retry_loop"
    /\ \E o \in OpOutcomes :
         /\ RetryStep(o, NetworkErrors)
         /\ pc' = IF rout'.kind = "none" THEN "retry_loop" ELSE "retry_done"
         /\ exc' = IF rout'.kind = "raise" THEN rout'.val ELSE "none"
    /\ UNCHANGED <<tokenVars, walkVars, layers, last_reset, num_calls,
                   stamps, waits>>

NextRetry == RetryCall \/ RetryAttempt

SpecRetry == InitRetry /\ [][NextRetry]_vars

----------------------------------------------------------------------------
(* Credential rotation: self.token_cycle = cycle(tokens), get_next_token.   *)

TokenNames == {"t1", "t2"}

\* Every list of at most MaxTokens tokens, the empty list included.
TokenLists == UNION {[1..n -> TokenNames] : n \in 0..MaxTokens}

\* next() on cycle(tokens): the position after c, wrapping after the last.
CycleAdvanceNoWrap(c) == c + 1
CycleAdvance(c) == (c % Len(tokens)) + 1

\* next() on cycle(tokens) raises StopIteration when tokens is empty.
CycleExhausted == cursor > Len(tokens)

\* __init__ (lines 67-69): nothing is checked, the cycle starts at the first
\* token.
Construct ==
    /\ pc = "start"
    /\ pc' = "constructed"
    /\ cursor' = 1
    /\ UNCHANGED <<exc, retryVars, tokens, tokLog, walkVars, limitVars>>

\* get_next_token (line 77) as a call of its own.
CallGetNextToken ==
    /\ pc = "constructed"
    /\ Len(tokLog) < MaxCalls
    /\ IF CycleExhausted
         THEN /\ pc' = "aborted"
              /\ exc' = "StopIteration"
              /\ UNCHANGED <<cursor, tokLog>>
         ELSE /\ tokLog' = Append(tokLog, tokens[cursor])
              /\ cursor' = CycleAdvance(cursor)
              /\ UNCHANGED <<pc, exc>>
    /\ UNCHANGED <<retryVars, tokens, walkVars, limitVars>>

InitToken ==
    /\ Idle
    /\ pc = "start"
    /\ tokens \in TokenLists
    /\ rcfg = [tries |-> 1, delay |-> DEFAULT_DELAY, backoff |-> DEFAULT_BACKOFF]

NextToken == Construct \/ CallGetNextToken

SpecToken == InitToken /\ [][NextToken]_vars

----------------------------------------------------------------------------
(* Files: names, the extension filter, reading, chunking.                   *)

SUPPORTED_EXTENSIONS ==
    { <<".", "p", "y">>, <<".", "j", "s">>, <<".", "j", "a", "v", "a">>,
      <<".", "c", "p", "p">>, <<".", "c">>, <<".", "c", "s">>,
      <<".", "t", "s">>, <<".", "p", "h", "p">> }

\* str.endswith for one suffix.
EndsWith(s, suf) ==
    /\ Len(s) >= Len(suf)
    /\ SubSeq(s, Len(s) - Len(suf) + 1, Len(s)) = suf

\* is_supported_file (line 151): filename.endswith(SUPPORTED_EXTENSIONS).
is_supported_file(filename) ==
    \E suf \in SUPPORTED_EXTENSIONS : EndsWith(filename, suf)

\* File names os.walk may yield.
FileNames ==
    { <<"a", ".", "p", "y">>, <<"n", ".", "t", "x", "t">>,
      <<"m", ".", "p", "y", "c">> }

\* A text of L characters; the character at position i is written i.
Content(L) == [i \in 1..L |-> i]
Contents == {Content(L) : L \in 0..MaxContent}

\* What the file system does when the file is opened and decoded:
\*   utf8      the utf-8 read succeeds (line 163);
\*   latin1    utf-8 decoding fails, the latin-1 read succeeds (line 166);
\*   open_err  open or read raises OSError in the first attempt;
\*   fall_err  utf-8 decoding fails and the latin-1 attempt raises OSError.
ReadModes == {"utf8", "latin1", "open_err", "fall_err"}

\* read_file (lines 161-166).
read_file(mode, text) ==
    IF mode \in {"utf8", "latin1"} THEN Return(text) ELSE Raise("OSError")

Min(a, b) == IF a < b THEN a ELSE b

\* split_content (line 142):
\* [content[i:i + max_length] for i in range(0, len(content), max_length)].
split_content_droptail(content, max_length) ==
    LET n == Len(content) \div max_length
    IN  [k \in 1..n |->
            SubSeq(content, (k - 1) * max_length + 1, k * max_length)]
split_content_extra(content, max_length) ==
    LET n == (Len(content) \div max_length) + 1
    IN  [k \in 1..n |->
            SubSeq(content, (k - 1) * max_length + 1,
                   Min(k * max_length, Len(content)))]
split_content_overlap(content, max_length) ==
    LET n == (Len(content) + max_length - 1) \div max_length
    IN  [k \in 1..n |->
            SubSeq(content, (k - 1) * max_length + 1,
                   Min(k * max_length + 1, Len(content)))]
split_content(content, max_length) ==
    LET n == (Len(content) + max_length - 1) \div max_length
    IN  [k \in 1..n |->
            SubSeq(content, (k - 1) * max_length + 1,
                   Min(k * max_length, Len(content)))]

\* SpecSplit: split_content called once with any content and max_length.
SplitAlphabet == {"a", "b"}
SplitContents == UNION {[1..n -> SplitAlphabet] : n \in 0..MaxSplitLen}

InitSplit ==
    /\ exc = "none"
    /\ l_tries = 0 /\ l_delay = 0
    /\ calls = << >> /\ sleeps = << >> /\ rout = NoOutcome
    /\ cursor = 1 /\ tokLog = << >> /\ tokens = << >>
    /\ walked = << >>
    /\ contents = << >> /\ ci = 1 /\ summaries = << >>
    /\ reports = << >> /\ dispatched = {}
    /\ requests = << >> /\ client = NoOutcome /\ found = << >>
    /\ parsed = [kind |-> "none", exc |-> "",
                 val |-> [t |-> "null", items |-> << >>]]
    /\ layers = << >> /\ now = 0 /\ last_reset = 0 /\ num_calls = 0
    /\ stamps = << >> /\ waits = << >>
    /\ pc = "split_idle"
    /\ rcfg = [tries |-> 1, delay |-> DEFAULT_DELAY, backoff |-> DEFAULT_BACKOFF]
    /\ \E text \in SplitContents :
         cur = [name |-> << >>, token |-> "", content |-> text]
    /\ arg_max_length \in 1..MaxSplitM

CallSplitContent ==
    /\ pc = "split_idle"
    /\ contents' = split_content(cur.content, arg_max_length)
    /\ pc' = "split_done"
    /\ UNCHANGED <<exc, retryVars, tokenVars, walked, cur, ci, summaries,
                   reports, dispatched, requests, client, parsed, found,
                   arg_max_length, limitVars>>

NextSplit == CallSplitContent

SpecSplit == InitSplit /\ [][NextSplit]_vars

\* Line 189: the content is split only when it is longer than the threshold.
Chunks(content) ==
    IF Len(content) > MaxLength
      THEN split_content(content, MaxLength)
      ELSE <<content>>

----------------------------------------------------------------------------
(* The completion request and the body of process_code (lines 91-132).      *)

R_TWO   == "{\"issues\": [{\"severity\": \"HIGH\", \"description\": \"d1\", \"line\": 3}, {\"severity\": \"BOGUS\", \"description\": \"d2\", \"line\": \"x\"}]}"
R_ONE   == "{\"issues\": [{\"severity\": \"LOW\", \"description\": \"d3\", \"line\": null}]}"
R_EMPTY == "{\"issues\": []}"
R_NOKEY == "{}"
R_PROSE == "SEVERITY: INFO - No significant vulnerabilities detected."
R_ARRAY == "[]"
R_NULL  == "{\"issues\": null}"

\* Texts the model may answer with.
Responses == {R_TWO, R_ONE, R_EMPTY, R_NOKEY, R_PROSE, R_ARRAY, R_NULL}

\* What self.client.chat.completions.create does: it answers with a text or
\* raises.
ClientOutcomes ==
    {Return(r) : r \in Responses}
        \cup {Raise(e) : e \in NetworkErrors \cup OtherErrors}

\* The body of process_code: the answer's text, or the exception turned
\* into a string (lines 127-132).  str(e) is written as the class name.
RawBodyNetworkOnly(c) ==
    IF c.kind = "return" THEN c
    ELSE IF c.val \in NetworkErrors THEN Return("Network error: " \o c.val)
    ELSE c
RawBody(c) ==
    IF c.kind = "return" THEN c
    ELSE IF c.val \in NetworkErrors THEN Return("Network error: " \o c.val)
    ELSE Return("Error: " \o c.val)

\* Error strings process_code can return.
NetworkErrorStrings == {"Network error: " \o e : e \in NetworkErrors}
ErrorStrings == {"Error: " \o e : e \in OtherErrors}

----------------------------------------------------------------------------
(* parse_issues (lines 217-224) and summaries.extend (line 206).            *)

Issue(sev, desc, line) == [severity |-> sev, description |-> desc, line |-> line]

\* The entries of R_TWO and of R_ONE; JSON scalars are kept as their JSON text.
IssuesTwo ==
    << Issue("\"HIGH\"", "\"d1\"", "3"), Issue("\"BOGUS\"", "\"d2\"", "\"x\"") >>

IssuesOne == << Issue("\"LOW\"", "\"d3\"", "null") >>

JArray(items) == [t |-> "array", items |-> items]
JNull == [t |-> "null", items |-> << >>]

\* json.loads on the texts above: the type of the top-level value, whether
\* an object has the key "issues", and that key's value.  Any other text
\* (prose, an error string of process_code) is not JSON.
JsonLoads(text) ==
    CASE text = R_TWO   -> [t |-> "object", has |-> TRUE,  issues |-> JArray(IssuesTwo)]
      [] text = R_ONE   -> [t |-> "object", has |-> TRUE,  issues |-> JArray(IssuesOne)]
      [] text = R_EMPTY -> [t |-> "object", has |-> TRUE,  issues |-> JArray(<< >>)]
      [] text = R_NOKEY -> [t |-> "object", has |-> FALSE, issues |-> JNull]
      [] text = R_NULL  -> [t |-> "object", has |-> TRUE,  issues |-> JNull]
      [] text = R_ARRAY -> [t |-> "array",  has |-> FALSE, issues |-> JNull]
      [] OTHER          -> [t |-> "error",  has |-> FALSE, issues |-> JNull]

\* parse_issues: json.loads(result).get('issues', []); JSONDecodeError gives
\* []; .get on a value that is no dict raises AttributeError.
Returned(v) == [kind |-> "return", exc |-> "", val |-> v]
Raised(e) == [kind |-> "raise", exc |-> e, val |-> JNull]

\* The severity levels the prompt names (line 100), as JSON texts.
SeverityLevels ==
    {"\"CRITICAL\"", "\"HIGH\"", "\"MEDIUM\"", "\"LOW\"", "\"INFO\""}

KnownSeverity(i) == i.severity \in SeverityLevels

parse_issues_validating(result) ==
    LET v == JsonLoads(result)
    IN  IF v.t = "error" THEN Returned(JArray(<< >>))
        ELSE IF v.t # "object" THEN Raised("AttributeError")
        ELSE IF v.has /\ v.issues.t = "array"
          THEN Returned(JArray(SelectSeq(v.issues.items, KnownSeverity)))
        ELSE IF v.has THEN Returned(v.issues)
        ELSE Returned(JArray(<< >>))
parse_issues(result) ==
    LET v == JsonLoads(result)
    IN  IF v.t = "error" THEN Returned(JArray(<< >>))
        ELSE IF v.t # "object" THEN Raised("AttributeError")
        ELSE IF v.has THEN Returned(v.issues)
        ELSE Returned(JArray(<< >>))

\* summaries.extend(issues): a value that is not iterable raises TypeError.
ExtendPrepend(s, issues) ==
    IF issues.t = "array" THEN Return(issues.items \o s) ELSE Raise("TypeError")
Extend(s, issues) ==
    IF issues.t = "array" THEN Return(s \o issues.items) ELSE Raise("TypeError")

----------------------------------------------------------------------------
(* The rate limiter: @sleep_and_retry over @limits(calls=CALLS,             *)
(* period=PERIOD) (lines 79-80), as the ratelimit package implements them.  *)

CALLS  == 5
PERIOD == 1
PROCESS_CODE_TRIES == 3

PeriodTicks == PERIOD * TicksPerSecond

\* limits.__period_remaining at clock reading t.
PeriodRemaining(t) == PeriodTicks - (t - last_reset)

\* The clock readings possible at a call: time may have passed since the
\* last reading.
ClockReadings == {now} \cup {t \in {now + 1} : t <= MaxTime}

----------------------------------------------------------------------------
(* Spec: the analyzer.                                                      *)

AnalyzerTokenLists == { << >>, <<"t1">>, <<"t1", "t2">> }

Init ==
    /\ Idle
    /\ pc = "start"
    /\ tokens \in AnalyzerTokenLists
    /\ rcfg = [tries |-> PROCESS_CODE_TRIES, delay |-> DEFAULT_DELAY,
               backoff |-> DEFAULT_BACKOFF]

Path == Len(walked)

\* analyze is called (line 174): os.walk starts.
AnalyzeStart ==
    /\ pc = "constructed"
    /\ pc' = "walk"
    /\ UNCHANGED <<exc, retryVars, tokenVars, walkVars, limitVars>>

\* os.walk has no more files: analyze returns.
WalkEnd ==
    /\ pc = "walk"
    /\ pc' = "done"
    /\ UNCHANGED <<exc, retryVars, tokenVars, walkVars, limitVars>>

\* Lines 175-177: a file that fails the extension filter is skipped.
SkipUnsupported ==
    /\ pc = "walk"
    /\ Len(walked) < MaxFiles
    /\ \E name \in FileNames :
         /\ ~is_supported_file(name)
         /\ walked' = Append(walked, [supported |-> FALSE, read |-> "none"])
    /\ UNCHANGED <<pc, exc, retryVars, tokenVars, cur, contents, ci,
                   summaries, reports, dispatched, requests, client, parsed,
                   found, arg_max_length, limitVars>>

\* Line 180 with an exhausted cycle: StopIteration leaves analyze.
TokenExhausted ==
    /\ pc = "walk"
    /\ Len(walked) < MaxFiles
    /\ CycleExhausted
    /\ \E name \in FileNames :
         /\ is_supported_file(name)
         /\ walked' = Append(walked, [supported |-> TRUE, read |-> "none"])
    /\ pc' = "aborted"
    /\ exc' = "StopIteration"
    /\ UNCHANGED <<retryVars, tokenVars, cur, contents, ci, summaries,
                   reports, dispatched, requests, client, parsed, found,
                   arg_max_length, limitVars>>

\* `except Exception as e` (line 185): which exceptions of read_file the
\* handler in analyze catches.
AnalyzeCatchesDecodeOnly(e) == e = "UnicodeDecodeError"
AnalyzeCatches(e) == TRUE

\* Lines 179-187: the token is taken, the read fails, the failure is logged
\* and the loop continues with the next file.
ReadFails ==
    /\ pc = "walk"
    /\ Len(walked) < MaxFiles
    /\ ~CycleExhausted
    /\ \E name \in FileNames, mode \in ReadModes, text \in Contents :
         /\ is_supported_file(name)
         /\ read_file(mode, text).kind = "raise"
         /\ walked' = Append(walked, [supported |-> TRUE, read |-> "failed"])
         /\ IF AnalyzeCatches(read_file(mode, text).val)
              THEN UNCHANGED <<pc, exc>>
              ELSE pc' = "aborted" /\ exc' = read_file(mode, text).val
    /\ tokLog' = Append(tokLog, tokens[cursor])
    /\ cursor' = CycleAdvance(cursor)
    /\ UNCHANGED <<retryVars, tokens, cur, contents, ci, summaries,
                   reports, dispatched, requests, client, parsed, found,
                   arg_max_length, limitVars>>

\* Lines 179-190: the token is taken, the file is read and chunked, and
\* collect_issues starts with summaries = [].
ReadOk ==
    /\ pc = "walk"
    /\ Len(walked) < MaxFiles
    /\ ~CycleExhausted
    /\ \E name \in FileNames, mode \in ReadModes, text \in Contents :
         /\ is_supported_file(name)
         /\ read_file(mode, text).kind = "return"
         /\ walked' = Append(walked, [supported |-> TRUE, read |-> "ok"])
         /\ cur' = [name |-> name, token |-> tokens[cursor],
                    content |-> read_file(mode, text).val]
         /\ contents' = Chunks(read_file(mode, text).val)
    /\ tokLog' = Append(tokLog, tokens[cursor])
    /\ cursor' = CycleAdvance(cursor)
    /\ ci' = 1
    /\ summaries' = << >>
    /\ requests' = << >>
    /\ found' = << >>
    /\ pc' = "collect"
    /\ UNCHANGED <<exc, retryVars, tokens, reports, dispatched, client,
                   parsed, arg_max_length, limitVars>>

\* Line 204: collect_issues calls process_code for the next chunk; the
\* outermost wrapper, sleep_and_retry, is entered.
CallProcessCode ==
    /\ pc = "collect"
    /\ ci <= Len(contents)
    /\ pc' = "limits"
    /\ layers' = <<"sleep_and_retry">>
    /\ waits' = << >>
    /\ UNCHANGED <<exc, retryVars, tokenVars, walkVars, now, last_reset,
                   num_calls, stamps>>

\* `if self.num_calls > self.clamped_calls` in limits.__call__: is the n-th
\* call of the window over budget?
OverBudgetOffByOne(n) == n > CALLS + 1
OverBudget(n) == n > CALLS

\* limits.__call__ within budget: the window is reset when it has run out,
\* the call is counted, and func, which is wrapper_retry, is called.
LimitPass ==
    /\ pc = "limits"
    /\ \E t \in ClockReadings :
         LET reset == PeriodRemaining(t) <= 0
             n == (IF reset THEN 0 ELSE num_calls) + 1
         IN  /\ ~OverBudget(n)
             /\ now' = t
             /\ last_reset' = IF reset THEN t ELSE last_reset
             /\ num_calls' = n
             /\ stamps' = IF reset THEN << >> ELSE stamps
    /\ RetryEnter
    /\ layers' = layers \o <<"limits", "retry">>
    /\ pc' = "retry"
    /\ UNCHANGED <<exc, tokenVars, walkVars, waits>>

\* limits.__call__ over budget: RateLimitException(period_remaining) is
\* raised; sleep_and_retry sleeps that long and calls limits again.
LimitExceeded ==
    /\ pc = "limits"
    /\ \E t \in ClockReadings :
         /\ PeriodRemaining(t) > 0
         /\ OverBudget(num_calls + 1)
         /\ num_calls' = num_calls + 1
         /\ now' = t + PeriodRemaining(t)
         /\ waits' = Append(waits, PeriodRemaining(t))
    /\ UNCHANGED <<pc, exc, retryVars, tokenVars, walkVars, layers,
                   last_reset, stamps>>

\* wrapper_retry invokes the body of process_code once; the body asks the
\* client and turns every exception into a string.
\* The model_token argument of the request (line 120): the token parameter
\* collect_issues passes on (line 204), which analyze took once for the file.
RequestTokenFresh == tokens[cursor]
RequestToken == cur.token

Attempt ==
    /\ pc = "retry"
    /\ \E c \in ClientOutcomes :
         /\ RetryStep(RawBody(c), NetworkErrors)
         /\ client' = c
         /\ pc' = CASE rout'.kind = "none"   -> "retry"
                    [] rout'.kind = "return" -> "parse"
                    [] OTHER                 -> "aborted"
         /\ exc' = IF rout'.kind = "raise" THEN rout'.val ELSE exc
    /\ layers' = IF layers[Len(layers)] = "process_code"
                   THEN layers ELSE Append(layers, "process_code")
    /\ dispatched' = dispatched \cup {Path}
    /\ requests' = Append(requests, [path |-> Path, token |-> RequestToken,
                                      content |-> contents[ci]])
    /\ stamps' = Append(stamps, now)
    /\ UNCHANGED <<tokenVars, walked, cur, contents, ci, summaries, reports,
                   parsed, found, arg_max_length, last_reset, num_calls, waits>>

\* Lines 205-206: the result is parsed and the issues are appended.
ParseAndExtend ==
    /\ pc = "parse"
    /\ LET issues == parse_issues(rout.val)
           ext == Extend(summaries, issues.val)
       IN  /\ parsed' = issues
           /\ IF issues.kind = "raise"
                THEN /\ pc' = "aborted" /\ exc' = issues.exc
                     /\ UNCHANGED <<summaries, ci, found>>
              ELSE IF ext.kind = "raise"
                THEN /\ pc' = "aborted" /\ exc' = ext.val
                     /\ UNCHANGED <<summaries, ci, found>>
              ELSE /\ summaries' = ext.val
                   /\ found' = Append(found, issues.val.items)
                   /\ ci' = ci + 1
                   /\ pc' = "collect"
                   /\ UNCHANGED exc
    /\ UNCHANGED <<retryVars, tokenVars, walked, cur, contents, reports,
                   dispatched, requests, client, arg_max_length, limitVars>>

\* Lines 190-191: collect_issues returns and the report is handed to the
\* sink.
add_file_summary_nonempty(path, findings) ==
    IF findings = << >> THEN reports
    ELSE Append(reports, [path |-> path, findings |-> findings])
add_file_summary(path, findings) ==
    Append(reports, [path |-> path, findings |-> findings])

AddFileSummary ==
    /\ pc = "collect"
    /\ ci > Len(contents)
    /\ reports' = add_file_summary(Path, summaries)
    /\ pc' = "walk"
    /\ UNCHANGED <<exc, retryVars, tokenVars, walked, cur, contents, ci,
                   summaries, dispatched, requests, client, parsed, found,
                   arg_max_length, limitVars>>

Next ==
    \/ Construct
    \/ AnalyzeStart
    \/ WalkEnd
    \/ SkipUnsupported
    \/ TokenExhausted
    \/ ReadFails
    \/ ReadOk
    \/ CallProcessCode
    \/ LimitPass
    \/ LimitExceeded
    \/ Attempt
    \/ ParseAndExtend
    \/ AddFileSummary

Spec == Init /\ [][Next]_vars

----------------------------------------------------------------------------
(* Claims about the retry wrapper, checked under SpecRetry.                 *)

RECURSIVE Pow(_, _)
Pow(b, e) == IF e = 0 THEN 1 ELSE b * Pow(b, e - 1)

Designated(o) == o.kind = "raise" /\ o.val \in NetworkErrors

\* The first k invocations all raised a designated exception.
FailedFirst(k) == k <= Len(calls) /\ \A i \in 1..k : Designated(calls[i])

\* The sleeps so far are delay * backoff^(i-1) after the i-th failure.
BackoffSchedule(k) ==
    /\ Len(sleeps) = k
    /\ \A i \in 1..k : sleeps[i] = rcfg.delay * Pow(rcfg.backoff, i - 1)

\* C2: an operation that raises a designated exception on its first j calls
\* (j < tries) is invoked a (j+1)-th time, and when that call succeeds the
\* wrapper returns its value after exactly j+1 invocations, having slept
\* delay * backoff^(i-1) after the i-th failure; with backoff > 1 the delays
\* strictly increase.
C2_RetryThenSuccess ==
    \A j \in 0..(rcfg.tries - 1) :
        /\ (pc # "retry_idle" /\ Len(calls) = j /\ FailedFirst(j))
              => (pc = "retry_loop" /\ BackoffSchedule(j))
        /\ (Len(calls) = j + 1 /\ FailedFirst(j) /\ calls[j + 1].kind = "return")
              => /\ pc = "retry_done"
                 /\ rout = calls[j + 1]
                 /\ exc = "none"
                 /\ BackoffSchedule(j)
                 /\ (rcfg.backoff > 1 =>
                        \A i \in 1..(j - 1) : sleeps[i] < sleeps[i + 1])

\* tries=3, delay=1, backoff=2: two failures, then success on the third
\* invocation, after sleeps of 1 and 2.
C2_Witness ==
    /\ rcfg = [tries |-> 3, delay |-> 1, backoff |-> 2]
    /\ pc = "retry_done"
    /\ Len(calls) = 3 /\ FailedFirst(2) /\ calls[3] = Return("ok")
    /\ rout = Return("ok")
    /\ sleeps = <<1, 2>>

\* C4: an operation that raises a designated exception on every call is
\* invoked exactly tries times with tries-1 sleeps, and the exception of the
\* last invocation leaves the wrapper; no value is returned in its place.
C4_ExhaustedPropagates ==
    (pc # "retry_idle" /\ FailedFirst(Len(calls))) =>
        /\ Len(calls) <= rcfg.tries
        /\ Len(calls) < rcfg.tries =>
              (pc = "retry_loop" /\ Len(sleeps) = Len(calls))
        /\ Len(calls) = rcfg.tries =>
              /\ pc = "retry_done"
              /\ Len(sleeps) = rcfg.tries - 1
              /\ rout = calls[rcfg.tries]
              /\ rout.kind = "raise"
              /\ exc = calls[rcfg.tries].val

\* Three designated failures with tries=3; the last one, of another class
\* than the first, is the one propagated.
C4_Witness ==
    /\ rcfg.tries = 3
    /\ pc = "retry_done"
    /\ Len(calls) = 3 /\ FailedFirst(3)
    /\ calls[1] = Raise("HTTPError") /\ calls[3] = Raise("Timeout")
    /\ rout = Raise("Timeout")
    /\ Len(sleeps) = 2

\* C5: an exception outside the designated set leaves the wrapper on the
\* attempt that raises it: that attempt is the last invocation and no sleep
\* follows it.
C5_OtherPropagatesAtOnce ==
    \A k \in 1..Len(calls) :
        (calls[k].kind = "raise" /\ calls[k].val \notin NetworkErrors) =>
            /\ k = Len(calls)
            /\ pc = "retry_done"
            /\ rout = calls[k]
            /\ exc = calls[k].val
            /\ Len(sleeps) = k - 1

\* A designated failure, then an undesignated one on the second of three
\* attempts: two invocations, one sleep, the second exception propagated.
C5_Witness ==
    /\ rcfg.tries = 3
    /\ pc = "retry_done"
    /\ Len(calls) = 2
    /\ Designated(calls[1])
    /\ calls[2] = Raise("APIError")
    /\ rout = Raise("APIError")
    /\ Len(sleeps) = 1

----------------------------------------------------------------------------
(* Claims about the credential rotation, checked under SpecToken.           *)

\* C6: on a non-empty token list of length k the i-th call of
\* get_next_token returns tokens[(i-1) mod k] (zero-based), so the calls go
\* through the list in order and call k+1 returns the first token again;
\* no call fails.
C6_RoundRobin ==
    Len(tokens) > 0 =>
        /\ pc # "aborted"
        /\ \A i \in 1..Len(tokLog) :
              tokLog[i] = tokens[((i - 1) % Len(tokens)) + 1]

\* Two distinct tokens, three calls: the third returns the first token.
C6_Witness ==
    /\ tokens = <<"t1", "t2">>
    /\ tokLog = <<"t1", "t2", "t1">>

----------------------------------------------------------------------------
(* Claims about the analyzer, checked under Spec.                           *)

\* The position of wrapper w in layers (0 when absent).
LayerIndex(w) ==
    IF \E i \in DOMAIN layers : layers[i] = w
      THEN CHOOSE i \in DOMAIN layers : layers[i] = w
      ELSE 0

ReportsFor(i) == {k \in DOMAIN reports : reports[k].path = i}

\* C1: when process_code returns a 'Network error: ...' string, the client
\* request was attempted PROCESS_CODE_TRIES times, with sleeps of 1 and 2
\* seconds between the attempts.
C1_NetworkFailureRetried ==
    (pc = "parse" /\ rout.val \in NetworkErrorStrings) =>
        /\ Len(calls) = PROCESS_CODE_TRIES
        /\ sleeps = <<1, 2>>

\* C3: every invocation of the body of process_code passes through the rate
\* limiter inside the retry wrapper: retry wraps limits wraps the raw call.
C3_RetryWrapsLimiter ==
    LayerIndex("process_code") > 0 =>
        /\ LayerIndex("retry") > 0
        /\ LayerIndex("retry") < LayerIndex("limits")
        /\ LayerIndex("limits") < LayerIndex("process_code")

\* C7: with an empty token list the constructor fails: the analyzer is never
\* constructed and analyze never walks a file.
C7_EmptyPoolFailsAtConstruction ==
    tokens = << >> => (pc \in {"start", "aborted"} /\ walked = << >>)

\* C8: when analyze has returned (and whenever it is between two files),
\* the sink has received exactly one report for every walked file that
\* passed the extension filter and was read, empty findings included, and
\* none for any other file.
C8_OneReportPerReadableFile ==
    pc \in {"walk", "done"} =>
        /\ \A k \in DOMAIN reports : reports[k].path \in 1..Len(walked)
        /\ \A i \in 1..Len(walked) :
              Cardinality(ReportsFor(i)) =
                  IF walked[i].supported /\ walked[i].read = "ok" THEN 1 ELSE 0

\* analyze has returned after a filtered-out file and a readable file whose
\* only answer was no JSON: the second file has its report, with no
\* findings.
C8_Witness ==
    /\ pc = "done"
    /\ Len(walked) = 2
    /\ ~walked[1].supported
    /\ walked[2].read = "ok"
    /\ rout.val = R_PROSE
    /\ reports = << [path |-> 2, findings |-> << >>] >>

\* C9: no read outcome, dispatch outcome or response text makes analyze
\* leave the traversal with an exception (given a non-empty token list).
C9_NeverAborts ==
    tokens # << >> => pc # "aborted"

\* C10: a file whose read failed has no chunk dispatched and no report, and
\* right after the failure analyze is back at the loop over the files (or
\* has returned because there was no further file), with no exception.
C10_ReadFailureSkipsFile ==
    /\ \A i \in 1..Len(walked) :
          walked[i].read = "failed" =>
              (i \notin dispatched /\ ReportsFor(i) = {})
    /\ (Len(walked) > 0 /\ walked[Len(walked)].read = "failed") =>
          (pc \in {"walk", "done"} /\ exc = "none")

\* The first file fails to read, the second is read, dispatched and
\* reported.
C10_Witness ==
    /\ pc = "done"
    /\ Len(walked) = 2
    /\ walked[1].read = "failed"
    /\ walked[2].read = "ok"
    /\ dispatched = {2}
    /\ Len(reports) = 1 /\ reports[1].path = 2

----------------------------------------------------------------------------
(* Claims about split_content, checked under SpecSplit.                     *)

RECURSIVE Flatten(_)
Flatten(ss) == IF ss = << >> THEN << >> ELSE Head(ss) \o Flatten(Tail(ss))

\* C15: the chunks of split_content(content, m), concatenated in order, are
\* content, for every content and every m >= 1.
C15_ChunksReassemble ==
    pc = "split_done" => Flatten(contents) = cur.content

\* Four characters split at 3: "abb" and "a".
C15_Witness ==
    /\ pc = "split_done"
    /\ cur.content = <<"a", "b", "b", "a">>
    /\ arg_max_length = 3
    /\ contents = << <<"a", "b", "b">>, <<"a">> >>

\* C16 as stated: every content of length 0 <= L <= max_length gives exactly
\* one chunk, equal to content.
C16_OneChunkFromZero ==
    (pc = "split_done" /\ Len(cur.content) <= arg_max_length) =>
        contents = <<cur.content>>

\* C16 amended: every content of length 1 <= L <= max_length gives exactly
\* one chunk, equal to content; the empty content gives no chunk.
C16_OneChunkFromOne ==
    pc = "split_done" =>
        /\ (1 <= Len(cur.content) /\ Len(cur.content) <= arg_max_length) =>
              contents = <<cur.content>>
        /\ Len(cur.content) = 0 => contents = << >>

\* A content exactly max_length long comes back as one chunk.
C16_Witness ==
    /\ pc = "split_done"
    /\ cur.content = <<"a", "b">>
    /\ arg_max_length = 2
    /\ contents = << <<"a", "b">> >>

\* C17: a content longer than max_length gives n chunks, where n is the
\* number with (n-1) * max_length < L <= n * max_length; every chunk but the
\* last is max_length long and the last is 1..max_length long.
C17_ChunkCountAndSizes ==
    (pc = "split_done" /\ Len(cur.content) > arg_max_length) =>
        LET n == Len(contents)
        IN  /\ (n - 1) * arg_max_length < Len(cur.content)
            /\ Len(cur.content) <= n * arg_max_length
            /\ \A k \in 1..(n - 1) : Len(contents[k]) = arg_max_length
            /\ 1 <= Len(contents[n])
            /\ Len(contents[n]) <= arg_max_length

\* Three characters split at 2: a full chunk and a last chunk of one.
C17_Witness ==
    /\ pc = "split_done"
    /\ Len(cur.content) = 3
    /\ arg_max_length = 2
    /\ Len(contents) = 2
    /\ Len(contents[1]) = 2 /\ Len(contents[2]) = 1

----------------------------------------------------------------------------
(* Claims about chunk dispatch, parsing, rate limiting and rotation,        *)
(* checked under Spec.                                                      *)

\* The file in cur is the file analyze is at (or was at last).
AtReadFile == Len(walked) > 0 /\ walked[Path].read = "ok"

\* The report for the file analyze is at has been handed to the sink.
Reported == reports # << >> /\ reports[Len(reports)].path = Path

\* process_code has returned and parse_issues has been applied to its
\* result.
ParsedResult == pc # "parse" /\ rout.kind = "return" /\ parsed.kind # "none"

\* C11: a read file of length L has one chunk when L is at most the
\* threshold and otherwise n chunks with (n-1)*threshold < L <= n*threshold;
\* the client is invoked once per chunk, in chunk order, and the findings
\* handed to the sink are the chunks' parsed findings concatenated in chunk
\* order, every chunk having been dispatched by then.
C11_OneDispatchPerChunkInOrder ==
    AtReadFile =>
        LET L == Len(cur.content)
            n == Len(contents)
        IN  /\ L <= MaxLength => n = 1
            /\ L > MaxLength => ((n - 1) * MaxLength < L /\ L <= n * MaxLength)
            /\ Len(requests) <= n
            /\ \A i \in DOMAIN requests :
                  requests[i].content = contents[i] /\ requests[i].path = Path
            /\ Len(found) <= Len(requests)
            /\ summaries = Flatten(found)
            /\ Reported =>
                  /\ Len(requests) = n
                  /\ Len(found) = n
                  /\ Flatten([i \in 1..n |-> requests[i].content]) = cur.content
                  /\ reports[Len(reports)].findings = Flatten(found)

\* Three characters with threshold 2: chunks "12" and "3" are dispatched in
\* that order, answered with one issue and with two; the report holds the
\* one issue before the two.
C11_Witness ==
    /\ pc = "walk"
    /\ AtReadFile /\ Reported
    /\ Len(cur.content) = 3
    /\ requests[1].content = <<1, 2>> /\ requests[2].content = <<3>>
    /\ found = <<IssuesOne, IssuesTwo>>
    /\ reports[Len(reports)].findings = IssuesOne \o IssuesTwo

\* A response text that is not JSON, or whose top-level value is no object,
\* or that is an object without the key "issues".
Malformed(text) == JsonLoads(text).t # "object" \/ ~JsonLoads(text).has

\* C12: for every malformed response text parse_issues returns an empty
\* sequence and does not raise.
C12_MalformedGivesEmpty ==
    (ParsedResult /\ Malformed(rout.val)) => parsed = Returned(JArray(<< >>))

\* C13: process_code returns a string whatever the client request does: the
\* answer's text, 'Network error: ' and the exception for the network
\* classes, 'Error: ' and the exception for any other; no exception of the
\* client leaves process_code.
C13_ProcessCodeAlwaysReturns ==
    (client.kind # "none" /\ Len(calls) > 0) =>
        /\ pc # "retry"
        /\ rout.kind = "return"
        /\ exc \notin (NetworkErrors \cup OtherErrors)
        /\ client.kind = "return" => rout.val = client.val
        /\ (client.kind = "raise" /\ client.val \in NetworkErrors) =>
              (rout.val = "Network error: " \o client.val
                  /\ rout.val \in NetworkErrorStrings)
        /\ (client.kind = "raise" /\ client.val \notin NetworkErrors) =>
              (rout.val = "Error: " \o client.val /\ rout.val \in ErrorStrings)

\* The client raises an exception outside the network classes and
\* collect_issues receives the string 'Error: APIError'.
C13_Witness ==
    /\ pc = "parse"
    /\ client = Raise("APIError")
    /\ rout = Return("Error: APIError")

\* An error string shows in the findings as one of their entries.
Surfaces(e, findings) ==
    \E i \in DOMAIN findings :
        findings[i].description = e \/ findings[i].severity = e

\* C14: when the last chunk of a file failed to dispatch, the error string
\* process_code returned for it is among the findings handed to the sink
\* for that file.
C14_DispatchFailureInReport ==
    (pc = "walk" /\ AtReadFile /\ Reported /\ rout.kind = "return"
        /\ rout.val \in (NetworkErrorStrings \cup ErrorStrings)) =>
        Surfaces(rout.val, reports[Len(reports)].findings)

\* C18: for a JSON object whose "issues" value is an array, parse_issues
\* returns the entries of the array, all of them, in order, each field as it
\* stands in the text: a severity outside the enumeration, a line that is a
\* string and a line that is null included.
C18_IssuesPassThrough ==
    ParsedResult =>
        /\ rout.val = R_TWO =>
              parsed = Returned(JArray(
                  << [severity |-> "\"HIGH\"", description |-> "\"d1\"",
                      line |-> "3"],
                     [severity |-> "\"BOGUS\"", description |-> "\"d2\"",
                      line |-> "\"x\""] >>))
        /\ rout.val = R_ONE =>
              parsed = Returned(JArray(
                  << [severity |-> "\"LOW\"", description |-> "\"d3\"",
                      line |-> "null"] >>))
        /\ rout.val = R_EMPTY => parsed = Returned(JArray(<< >>))

\* The two-entry answer has been parsed: both entries are there, the second
\* with its unknown severity and its line that is no number.
C18_Witness ==
    /\ pc = "collect"
    /\ rout.val = R_TWO
    /\ Len(parsed.val.items) = 2
    /\ parsed.val.items[2].severity = "\"BOGUS\""
    /\ parsed.val.items[2].line = "\"x\""
    /\ summaries = parsed.val.items

Eligible == {i \in 1..Len(walked) : walked[i].supported}

\* C20: with a non-empty token list the rotation has advanced once for every
\* walked file that passed the extension filter, read or not, and for
\* nothing else; the j-th such file got tokens[(j-1) mod k], and every
\* request for a file carries the token taken for that file.
C20_OneTokenPerEligibleFile ==
    tokens # << >> =>
        /\ Len(tokLog) = Cardinality(Eligible)
        /\ \A j \in DOMAIN tokLog :
              tokLog[j] = tokens[((j - 1) % Len(tokens)) + 1]
        /\ AtReadFile =>
              \A i \in DOMAIN requests :
                  requests[i].token = tokLog[Len(tokLog)]

\* Two tokens; a filtered-out file takes none; the second file takes t1 and
\* both its chunks are requested with t1.
C20_Witness ==
    /\ tokens = <<"t1", "t2">>
    /\ Len(walked) = 2
    /\ ~walked[1].supported
    /\ tokLog = <<"t1">>
    /\ Len(requests) = 2
    /\ requests[1].token = "t1" /\ requests[2].token = "t1"

=============================================================================
